---- MODULE Spec2Model ----
(***************************************************************************)
(* Model of src/ftoa/ken/fltfmt.c: the Plan 9 derived double -> decimal    *)
(* digit generator xdodtoa and its dtoa-style adapter kendtoa.             *)
(*                                                                         *)
(* Doubles are IEEE-754 binary64 values held exactly: a finite double is   *)
(* m * 2^q with m a natural number below 2^53 kept as a little-endian      *)
(* sequence of 15-bit limbs (TLC integers are 32 bits wide), and every     *)
(* arithmetic step of the code is the exact operation followed by          *)
(* round-to-nearest-even.  Characters are their ASCII codes.               *)
(***************************************************************************)
EXTENDS Integers, Sequences, FiniteSets, TLC

(***************************************************************************)
(* Natural numbers of any size: little-endian sequences of limbs below     *)
(* Base, with no leading (most significant) zero limb; << >> is zero.      *)
(* Carries are looked up rather than rippled, and a loop over lo..hi is    *)
(* written as one half followed by the other, so that the operators nest   *)
(* only as deep as the logarithm of the length.  A value that is used more  *)
(* than once is handed to an operator as its argument, where it is worked  *)
(* out once, rather than named in a LET.                                   *)
(***************************************************************************)
\* y, with x evaluated beforehand: TLC evaluates an operator's argument where
\* it is first used, inside whatever evaluation is then going on, and First
\* keeps such evaluations from nesting
First(x, y) == IF x = x THEN y ELSE y

LimbBits == 15
Base == 2^LimbBits

Max(a, b) == IF a >= b THEN a ELSE b
Min(a, b) == IF a <= b THEN a ELSE b

\* the index of the highest nonzero limb among a[1..i]
RECURSIVE BigTop(_, _)
BigTop(a, i) ==
  IF i = 0 THEN 0 ELSE IF a[i] # 0 THEN i ELSE BigTop(a, i - 1)

\* the n limbs a without leading zero limbs
BigNorm(a, n) == SubSeq(a, 1, BigTop(a, n))

RECURSIVE BigFromInt(_)
BigFromInt(n) ==
  IF n = 0 THEN << >> ELSE <<n % Base>> \o BigFromInt(n \div Base)

Limb(a, i) == IF i >= 1 /\ i <= Len(a) THEN a[i] ELSE 0

\* the carry out of limbs 1..i, for s the limb-by-limb sums, each below
\* 2 * Base - 1: limb i gives a carry, passes one on, or stops it
RECURSIVE CarryOut(_, _)
CarryOut(s, i) ==
  IF i = 0 THEN 0
  ELSE IF s[i] >= Base THEN 1
  ELSE IF s[i] = Base - 1 THEN CarryOut(s, i - 1)
  ELSE 0

\* the number whose limb-by-limb sums are s
BigCarry(s) ==
  LET n == Len(s)
  IN  BigNorm([i \in 1..(n + 1) |->
                 IF i <= n THEN (s[i] + CarryOut(s, i - 1)) % Base
                 ELSE CarryOut(s, n)], n + 1)

BigAdd(a, b) ==
  LET n == Max(Len(a), Len(b))
  IN  BigCarry(SubSeq([i \in 1..n |-> Limb(a, i) + Limb(b, i)], 1, n))

\* the borrow out of limbs 1..i of a - b
RECURSIVE BorrowOut(_, _, _)
BorrowOut(a, b, i) ==
  IF i = 0 THEN 0
  ELSE IF a[i] < Limb(b, i) THEN 1
  ELSE IF a[i] = Limb(b, i) THEN BorrowOut(a, b, i - 1)
  ELSE 0

\* a - b for a >= b
BigSub(a, b) ==
  BigNorm([i \in 1..Len(a) |->
             (a[i] - Limb(b, i) - BorrowOut(a, b, i - 1) + Base) % Base], Len(a))

RECURSIVE BigCmpFrom(_, _, _)
BigCmpFrom(a, b, i) ==
  IF i = 0 THEN 0
  ELSE IF a[i] < b[i] THEN 0 - 1
  ELSE IF a[i] > b[i] THEN 1
  ELSE BigCmpFrom(a, b, i - 1)

\* -1, 0 or 1 as a < b, a = b, a > b
BigCmp(a, b) ==
  IF Len(a) < Len(b) THEN 0 - 1
  ELSE IF Len(a) > Len(b) THEN 1
  ELSE BigCmpFrom(a, b, Len(a))

\* a * k + c0 for 0 <= k, c0 < Base: the low halves of the limb products, each
\* with the high half of the product below it
BigMulAdd(a, k, c0) ==
  LET n == Len(a) + 1
  IN  BigCarry(SubSeq([i \in 1..n |->
                         ((Limb(a, i) * k) % Base)
                           + (IF i = 1 THEN c0 ELSE (a[i - 1] * k) \div Base)], 1, n))

BigMulSmall(a, k) == BigMulAdd(a, k, 0)

ZeroLimbs(n) == SubSeq([i \in 1..n |-> 0], 1, n)

\* a times limbs lo..hi of b, each in its place
RECURSIVE BigMulRange(_, _, _, _)
BigMulRange(a, b, lo, hi) ==
  IF lo = hi
  THEN (IF b[lo] = 0 THEN << >> ELSE ZeroLimbs(lo - 1) \o BigMulSmall(a, b[lo]))
  ELSE LET mid == (lo + hi) \div 2
           x   == BigMulRange(a, b, lo, mid)
           y   == BigMulRange(a, b, mid + 1, hi)
       IN  First(<<x, y>>, BigAdd(x, y))

BigMul(a, b) ==
  IF a = << >> \/ b = << >> THEN << >>
  ELSE IF Len(a) >= Len(b) THEN BigMulRange(a, b, 1, Len(b))
  ELSE BigMulRange(b, a, 1, Len(a))

\* a * 2^n
BigShl(a, n) ==
  IF a = << >> THEN << >>
  ELSE ZeroLimbs(n \div LimbBits) \o BigMulSmall(a, 2^(n % LimbBits))

\* floor(a / 2^n)
BigShr(a, n) ==
  LET w == n \div LimbBits
      r == n % LimbBits
      k == Len(a) - w
  IN  IF k <= 0 THEN << >>
      ELSE BigNorm([i \in 1..k |->
                      (a[i + w] \div 2^r) + (Limb(a, i + w + 1) % 2^r) * 2^(LimbBits - r)], k)

\* bit n (from 0) of a
BigBit(a, n) == (Limb(a, (n \div LimbBits) + 1) \div 2^(n % LimbBits)) % 2

\* TRUE iff the n low bits of a are all zero
BigLowZero(a, n) ==
  /\ \A i \in 1..Min(n \div LimbBits, Len(a)) : a[i] = 0
  /\ Limb(a, (n \div LimbBits) + 1) % 2^(n % LimbBits) = 0

SmallBitLen(x) == IF x = 0 THEN 0 ELSE CHOOSE k \in 1..LimbBits : 2^(k-1) <= x /\ x < 2^k

BigBitLen(a) ==
  IF a = << >> THEN 0 ELSE LimbBits * (Len(a) - 1) + SmallBitLen(a[Len(a)])

BigIsOdd(a) == Limb(a, 1) % 2 = 1

BigSquare(h) == First(h, BigMul(h, h))

\* sq, times k when n is odd
BigPowOdd(sq, k, n) == First(sq, IF n % 2 = 1 THEN BigMulSmall(sq, k) ELSE sq)

\* k^n for 0 < k < Base, by repeated squaring
RECURSIVE BigPow(_, _)
BigPow(k, n) ==
  IF n = 0 THEN <<1>> ELSE BigPowOdd(BigSquare(BigPow(k, n \div 2)), k, n)

\* 5^n and 10^n; the powers used over and over are worked out once
MaxPow5 == 360
Pow5Tab == [n \in 0..MaxPow5 |-> BigPow(5, n)]
Pow5(n) == IF n <= MaxPow5 THEN Pow5Tab[n] ELSE BigPow(5, n)
Pow10(n) == BigShl(Pow5(n), n)

\* the value of a, for a below 2^30
BigToInt(a) == Limb(a, 1) + Base * Limb(a, 2)

\* the remainder r2 less b if that can be, and the quotient bit it gives
BigRecipTry(b, r2, qt) ==
  First(r2, IF BigCmp(r2, b) >= 0 THEN << BigSub(r2, b), BigMulAdd(qt, 2, 1) >>
            ELSE << r2, BigMulAdd(qt, 2, 0) >>)

\* one step of restoring division of 2^s by b, at bit i: st is <<the
\* remainder, the quotient>> so far
BigRecipStep(b, s, i, st) ==
  BigRecipTry(b, BigMulAdd(st[1], 2, IF i = s THEN 1 ELSE 0), st[2])

\* the steps at bits hi down to lo
RECURSIVE BigRecipRange(_, _, _, _, _)
BigRecipRange(b, s, hi, lo, st) ==
  IF hi = lo THEN BigRecipStep(b, s, hi, st)
  ELSE LET mid == (lo + hi) \div 2
           u   == BigRecipRange(b, s, hi, mid + 1, st)
       IN  First(u, BigRecipRange(b, s, mid, lo, u))

BigRecipResult(st) == <<st[2], st[1] # << >>>>

\* <<floor(2^s / b), whether the division left a remainder>>
BigRecip(b, s) ==
  First(b, BigRecipResult(BigRecipRange(b, s, s, 0, << << >>, << >> >>)))

(***************************************************************************)
(* IEEE-754 binary64.  A double is a record: k is "fin", "inf" or "nan",   *)
(* s the sign bit, and a finite value is m * 2^q with m < 2^MantBits,      *)
(* q >= MinQ, and m >= 2^(MantBits-1) unless q = MinQ (subnormals, zero).  *)
(***************************************************************************)
MantBits == 53
MinQ == 0 - 1074
MaxQ == 971

Fin(s, m, q) == [k |-> "fin", s |-> s, m |-> m, q |-> q]
FZero == Fin(0, << >>, MinQ)
FInf(s) == [k |-> "inf", s |-> s, m |-> << >>, q |-> 0]
FNaN == [k |-> "nan", s |-> 0, m |-> << >>, q |-> 0]

\* m * 2^q, or infinity when that is beyond the largest double
FPack(m, q) == IF q > MaxQ THEN FInf(0) ELSE Fin(0, m, q)

\* m1 * 2^q for m1 <= 2^MantBits
FNormal(m1, q) ==
  IF BigBitLen(m1) > MantBits THEN FPack(BigShr(m1, 1), q + 1) ELSE FPack(m1, q)

\* keep * 2^q rounded by what was cut off: half is the first bit cut, rest is
\* TRUE iff something lies below it
FRoundKeep(keep, half, rest, q) ==
  FNormal(IF half /\ (rest \/ BigIsOdd(keep)) THEN BigAdd(keep, <<1>>) ELSE keep, q)

\* the double nearest to n * 2^q (plus a little, when sticky), ties to even
FRound(n, q, sticky) ==
  LET bl == BigBitLen(n)
      sh == Max(bl - MantBits, MinQ - q)
      t  == Min(MantBits - bl, q - MinQ)
  IN  IF n = << >> THEN FZero
      ELSE IF sh <= 0 THEN Fin(0, BigShl(n, t), q - t)
      ELSE FRoundKeep(BigShr(n, sh), BigBit(n, sh - 1) = 1,
                      sticky \/ ~BigLowZero(n, sh - 1), q + sh)

\* the double of a C int
IntToF(n) ==
  [FRound(BigFromInt(IF n < 0 THEN 0 - n ELSE n), 0, FALSE)
     EXCEPT !.s = IF n < 0 THEN 1 ELSE 0]

\* the double nearest to p * 2^q, with sign s
FSigned(p, q, s) == First(p, [FRound(p, q, FALSE) EXCEPT !.s = s])

\* a * b
FMul(a, b) ==
  LET s == (a.s + b.s) % 2
  IN  IF a.k = "nan" \/ b.k = "nan" THEN FNaN
      ELSE IF a.k = "inf" \/ b.k = "inf"
      THEN (IF (a.k = "fin" /\ a.m = << >>) \/ (b.k = "fin" /\ b.m = << >>)
            THEN FNaN ELSE FInf(s))
      ELSE FSigned(BigMul(a.m, b.m), a.q + b.q, s)

\* the double nearest to qr[1] * 2^q, the quotient qr[1] being cut short when qr[2]
FQuotient(qr, q) == First(qr, FRound(qr[1], q, qr[2]))

\* 1. / d for a finite d > 0
FRecip(dg) ==
  First(dg, FQuotient(BigRecip(dg.m, 2 * MantBits + 4),
                      0 - (2 * MantBits + 4) - dg.q))

\* -1, 0, 1 as a < b, a = b, a > b, for doubles a, b >= 0 that are not NaN
FCmp(a, b) ==
  IF a.k = "inf" THEN (IF b.k = "inf" THEN 0 ELSE 1)
  ELSE IF b.k = "inf" THEN 0 - 1
  ELSE IF a.q < b.q THEN 0 - 1
  ELSE IF a.q > b.q THEN 1
  ELSE BigCmp(a.m, b.m)

\* (int)g for a finite 0 <= g < 2^30
FTrunc(g) ==
  IF g.q >= 0 THEN BigToInt(BigShl(g.m, g.q)) ELSE BigToInt(BigShr(g.m, 0 - g.q))

\* g - d for an int 0 <= d <= g (the difference is exact)
FSubInt(g, dg) ==
  FRound(IF g.q >= 0 THEN BigSub(BigShl(g.m, g.q), BigFromInt(dg))
         ELSE BigSub(g.m, BigShl(BigFromInt(dg), 0 - g.q)),
         IF g.q >= 0 THEN 0 ELSE g.q, FALSE)

\* frexp(f, &e): the e with f = x * 2^e, 1/2 <= x < 1, for a finite f # 0
Frexp(v) == v.q + BigBitLen(v.m)

(***************************************************************************)
(* Character codes and C helpers.                                          *)
(***************************************************************************)
ChNUL == 0
ChMinus == 45
Ch0 == 48
Ch1 == 49
Ch9 == 57
ChF == 70
Cha == 97
Che == 101
Chf == 102
Chg == 103
Chi == 105
Chn == 110

\* C integer division truncates toward zero
CDiv(a, b) == IF a >= 0 THEN a \div b ELSE 0 - ((0 - a) \div b)

NSIGNIF == 17
BufSize == NSIGNIF + 10
ZeroBuf == [i \in 0..(BufSize - 1) |-> ChNUL]

\* the C string starting at buf[i]
CStr(buf, i) ==
  LET n == CHOOSE k \in i..BufSize :
             /\ k = BufSize \/ buf[k] = ChNUL
             /\ \A j \in i..(k - 1) : buf[j] # ChNUL
  IN  [j \in 1..(n - i) |-> buf[i + j - 1]]

\* buf after the characters of str are stored from index off on
Store(buf, off, str) ==
  [i \in DOMAIN buf |->
     IF i >= off /\ i < off + Len(str) THEN str[i - off + 1] ELSE buf[i]]

\* strcpy(buf + off, str)
StrCpy(buf, off, str) == Store(buf, off, Append(str, ChNUL))

maxFloat64 == Fin(0, <<32767, 32767, 32767, 255>>, MaxQ)
\* the double nearest to the literal .301029995664
Log10Of2 == Fin(0, <<31570, 8510, 4173, 154>>, 0 - 54)
FOne == Fin(0, <<0, 0, 0, 128>>, 0 - 52)
FTen == Fin(0, <<0, 0, 0, 160>>, 0 - 49)

DBL_MIN_10_EXP == 0 - 307
DBL_MAX_10_EXP == 308
NPows10 == 160

\* pows10[n]: the double the compiler makes of the literal 1e<n>
pows10Tab == [n \in 0..(NPows10 - 1) |-> FRound(Pow10(n), 0, FALSE)]
pows10(n) == pows10Tab[n]

\* the for(;;) loop of pow10
RECURSIVE Pow10Ext(_, _)
Pow10Ext(dg, n) ==
  LET n1 == n - (NPows10 - 1)
  IN  First(dg, IF n1 < NPows10 THEN FMul(dg, pows10(n1))
                ELSE Pow10Ext(FMul(dg, pows10(NPows10 - 1)), n1))

\* d of pow10 for n >= 0
Pow10Abs(n) ==
  IF n < NPows10 THEN pows10(n) ELSE Pow10Ext(pows10(NPows10 - 1), n)

\* what pow10 returns
Pow10Ret(dg, neg) == First(dg, IF neg THEN FRecip(dg) ELSE dg)

\* pow10 for the n it does not turn away; its values are worked out once
pow10Tab ==
  [n \in DBL_MIN_10_EXP..DBL_MAX_10_EXP |->
     Pow10Ret(Pow10Abs(IF n < 0 THEN 0 - n ELSE n), n < 0)]

pow10(n) ==
  IF n < 0 /\ n < DBL_MIN_10_EXP THEN FZero
  ELSE IF n >= 0 /\ n > DBL_MAX_10_EXP THEN FInf(0)
  ELSE pow10Tab[n]

\* xadd(a, n, v): <<the buffer afterwards, the value returned>>
RECURSIVE XaddFrom(_, _, _)
XaddFrom(a, b, v) ==
  IF b < 0 THEN <<[a EXCEPT ![0] = Ch1], 1>>
  ELSE LET c == a[b] + v
       IN  IF c <= Ch9 THEN <<[a EXCEPT ![b] = c], 0>>
           ELSE XaddFrom([a EXCEPT ![b] = Ch0], b - 1, 1)

\* xadd as it would be if the carry were dropped instead of moved left
xaddNoCarry(a, n, v) ==
  IF n < 0 \/ n >= NSIGNIF THEN <<a, 0>>
  ELSE IF a[n] + v <= Ch9 THEN <<[a EXCEPT ![n] = a[n] + v], 0>>
  ELSE <<[a EXCEPT ![n] = Ch0], 0>>

xadd(a, n, v) ==
  IF n < 0 \/ n >= NSIGNIF THEN <<a, 0>> ELSE XaddFrom(a, n, v)

\* xsub(a, n, v)
RECURSIVE XsubFrom(_, _, _)
XsubFrom(a, b, v) ==
  IF b < 0 THEN <<[a EXCEPT ![0] = Ch9], 1>>
  ELSE LET c == a[b] - v
       IN  IF c >= Ch0 THEN <<[a EXCEPT ![b] = c], 0>>
           ELSE XsubFrom([a EXCEPT ![b] = Ch9], b - 1, 1)

xsub(a, n, v) == XsubFrom(a, n, v)

\* the digits of e > 0, least significant first (the array se of xaddexp)
RECURSIVE ExpDigits(_)
ExpDigits(ex) == IF ex = 0 THEN << >> ELSE <<(ex % 10) + Ch0>> \o ExpDigits(ex \div 10)

Reverse(sq) == [i \in 1..Len(sq) |-> sq[Len(sq) + 1 - i]]

\* xaddexp(buf + p, e): 'e', the sign, the decimal digits of e, NUL
xaddexp(buf, p, ex) ==
  LET ae == IF ex < 0 THEN 0 - ex ELSE ex
      se == ExpDigits(ae)
  IN  Store(buf, p,
            <<Che>> \o (IF ex < 0 THEN <<ChMinus>> ELSE << >>)
                    \o (IF se = << >> THEN <<Ch0>> ELSE Reverse(se))
                    \o <<ChNUL>>)

(***************************************************************************)
(* fmtstrtod, the correctly rounded decimal parser the code calls.  The    *)
(* code only ever compares the parsed double with f, so the parser is      *)
(* modelled by that comparison: the decimal text is read and its exact     *)
(* value n * 10^x is located against the rounding interval of f.           *)
(***************************************************************************)
IsDigit(c) == c >= Ch0 /\ c <= Ch9

\* the digits from buf[i] on: <<their value, the index after them>>
RECURSIVE ScanNum(_, _, _)
ScanNum(buf, i, acc) ==
  First(acc, IF i < BufSize /\ IsDigit(buf[i])
             THEN ScanNum(buf, i + 1, BigMulAdd(acc, 10, buf[i] - Ch0))
             ELSE <<acc, i>>)

RECURSIVE ScanInt(_, _, _)
ScanInt(buf, i, acc) ==
  IF i < BufSize /\ IsDigit(buf[i])
  THEN ScanInt(buf, i + 1, acc * 10 + (buf[i] - Ch0))
  ELSE acc

\* the exponent part at buf[i], if there is one
ParseExp(buf, i) ==
  IF i < BufSize /\ buf[i] = Che
  THEN (IF buf[i + 1] = ChMinus THEN 0 - ScanInt(buf, i + 2, 0)
        ELSE ScanInt(buf, i + 1, 0))
  ELSE 0

\* nm, the digits read, and what follows them
ParseRest(buf, nm) == [n |-> nm[1], x |-> ParseExp(buf, nm[2])]

\* the text at buf[0]: digits, then optionally 'e', '-' and an exponent
ParseText(buf) == ParseRest(buf, ScanNum(buf, 0, << >>))

\* -1, 0, 1 as a * 2^ea is below, equal to, above b * 2^eb
CmpScaled(a, ea, b, eb) ==
  IF ea >= eb THEN BigCmp(BigShl(a, ea - eb), b)
  ELSE BigCmp(a, BigShl(b, eb - ea))

\* the rounding interval of the double m * 2^q, in quarters of its unit:
\* half a unit above m, and half a unit below (a quarter, where the doubles
\* below are twice as dense)
HiQuarters(m) == BigMulAdd(m, 4, 2)
LoQuarters(m, q) ==
  IF BigBitLen(m) = MantBits /\ BigLowZero(m, MantBits - 1) /\ q > MinQ
  THEN BigSub(BigMulSmall(m, 4), <<1>>)
  ELSE BigSub(BigMulSmall(m, 4), <<2>>)

\* a decimal at (clo = 0), above or below the lower end of the interval
DecCmpLo(clo, m) ==
  IF clo > 0 THEN 0
  ELSE IF clo = 0 THEN (IF BigIsOdd(m) THEN 0 - 1 ELSE 0)
  ELSE 0 - 1

\* a decimal at (chi = 0), above or below the upper end of the interval, and
\* clo for the lower end
DecCmpHi(chi, clo, m) ==
  First(chi, IF chi > 0 THEN 1
             ELSE IF chi = 0 THEN (IF BigIsOdd(m) THEN 1 ELSE 0)
             ELSE IF m = << >> THEN 0
             ELSE DecCmpLo(clo, m))

\* xa * 2^x against hi * 2^t and lo * 2^t
DecCmpEnds(xa, x, hi, lo, t, m) ==
  First(xa, DecCmpHi(CmpScaled(xa, x, hi, t), CmpScaled(xa, x, lo, t), m))

\* n * 10^x against the interval, p5 being 5^|x|
DecCmpPow(n, x, v, p5) ==
  First(p5, IF x >= 0
            THEN DecCmpEnds(BigMul(n, p5), x,
                            HiQuarters(v.m), LoQuarters(v.m, v.q), v.q - 2, v.m)
            ELSE DecCmpEnds(n, x, BigMul(HiQuarters(v.m), p5),
                            BigMul(LoQuarters(v.m, v.q), p5), v.q - 2, v.m))

\* -1, 0, 1 as the double nearest to n * 10^x (ties to even) is below, equal
\* to, above the finite double f >= 0
DecCmp(n, x, v) == DecCmpPow(n, x, v, Pow5(IF x < 0 THEN 0 - x ELSE x))

\* the parsed text p against f
DecCmpText(p, v) == First(p, DecCmp(p.n, p.x, v))

\* the sign of fmtstrtod(buf, nil) - f
StrtodCmp(buf, v) == DecCmpText(ParseText(buf), v)

(***************************************************************************)
(* xdodtoa, by stages.                                                     *)
(***************************************************************************)
FIsNaN(v) == v.k = "nan"
FAbs(v) == [v EXCEPT !.s = 0]
FIsZero(v) == v.k = "fin" /\ v.m = << >>

\* prec as xdodtoa clamps it
XPrec(pr) == IF pr > NSIGNIF THEN NSIGNIF ELSE IF pr < 0 THEN 0 ELSE pr

\* chr as xdodtoa folds it
XChr(ch) == IF ch = ChF THEN Chf ELSE ch

\* a double assigned to an int: truncated toward zero
FToInt(p) == IF p.s = 1 THEN 0 - FTrunc(FAbs(p)) ELSE FTrunc(p)

\* e = e * .301029995664: the int becomes a double, the product is rounded,
\* and the assignment truncates it toward zero
EstimateExp(ex) == FToInt(FMul(IntToF(ex), Log10Of2))

RECURSIVE ScaleLt(_, _, _, _)
ScaleLt(h, dg, ex, g) ==
  IF FCmp(g, FOne) < 0
  THEN ScaleLt(h, dg, ex - 1, FMul(h, pow10(dg - (ex - 1))))
  ELSE <<ex, g>>

RECURSIVE ScaleGe(_, _, _, _)
ScaleGe(h, dg, ex, g) ==
  IF FCmp(g, FTen) >= 0
  THEN ScaleGe(h, dg, ex + 1, FMul(h, pow10(dg - (ex + 1))))
  ELSE <<ex, g>>

\* the second while loop, from where the first one (lt) stopped
XScaleGe(h, dg, lt) == First(lt, ScaleGe(h, dg, lt[1], lt[2]))

\* g = h * pow10(d-e) and the two while loops
XScaleLoops(h, dg, ex) ==
  First(h, XScaleGe(h, dg, ScaleLt(h, dg, ex, FMul(h, pow10(dg - ex)))))

\* d and h for the estimate e0: f is prescaled when e0 is large
XScaleFrom(v, e0) ==
  IF e0 >= 0 - 150 /\ e0 <= 150 THEN XScaleLoops(v, 0, e0)
  ELSE XScaleLoops(FMul(v, pow10(0 - CDiv(e0, 2))), CDiv(e0, 2), e0)

\* the exponent estimate and range normalization: <<e, g>> with 1 <= g < 10
XScale(v) ==
  IF FIsZero(v) THEN <<0, v>> ELSE XScaleFrom(v, EstimateExp(Frexp(v)))

\* one pass of the conversion loop: st is <<s1, g>>
XDigitStep(st, i) ==
  LET dg == FTrunc(st[2])
  IN  << [st[1] EXCEPT ![i] = dg + Ch0], FMul(FSubInt(st[2], dg), FTen) >>

\* the passes i = lo..hi
RECURSIVE XDigitsRange(_, _, _)
XDigitsRange(st, lo, hi) ==
  IF lo = hi THEN XDigitStep(st, lo)
  ELSE LET mid == (lo + hi) \div 2
           u   == XDigitsRange(st, lo, mid)
       IN  First(u, XDigitsRange(u, mid + 1, hi))

\* convert NSIGNIF digits of g into s1 and terminate them
XDigits(s1, g) ==
  [XDigitsRange(<<s1, g>>, 0, NSIGNIF - 1)[1] EXCEPT ![NSIGNIF] = ChNUL]

\* the fast path as it would be without the strcpy(s1, s2) and e = d that undo
\* its two tries
XFastNoRestore(s1, ex, v, ch, pr) ==
  LET c2  == IF ch = Chf THEN pr + 1 + ex ELSE pr + 1
      b1  == xaddexp([s1 EXCEPT ![NSIGNIF - 2] = Ch0, ![NSIGNIF - 1] = Ch0],
                     NSIGNIF, ex - NSIGNIF + 1)
      xa  == xadd(b1, NSIGNIF - 3, 1)
      e2  == IF xa[2] = 1 THEN ex + 1 ELSE ex
      b2  == IF xa[2] = 1 THEN xaddexp(xa[1], NSIGNIF, e2 - NSIGNIF + 1) ELSE xa[1]
  IN  IF c2 >= NSIGNIF - 2
      THEN IF StrtodCmp(b1, v) = 0 THEN [s1 |-> b1, e |-> ex, found |-> TRUE]
           ELSE IF StrtodCmp(b2, v) = 0 THEN [s1 |-> b2, e |-> e2, found |-> TRUE]
           ELSE [s1 |-> b2, e |-> e2, found |-> FALSE]
      ELSE [s1 |-> s1, e |-> ex, found |-> FALSE]

\* "try decimal rounding to eliminate 9s"
XFast(s1, ex, v, ch, pr) ==
  LET c2  == IF ch = Chf THEN pr + 1 + ex ELSE pr + 1
      bak == CStr(s1, 0)
      b1  == xaddexp([s1 EXCEPT ![NSIGNIF - 2] = Ch0, ![NSIGNIF - 1] = Ch0],
                     NSIGNIF, ex - NSIGNIF + 1)
      xa  == xadd(b1, NSIGNIF - 3, 1)
      e2  == IF xa[2] = 1 THEN ex + 1 ELSE ex
      b2  == IF xa[2] = 1 THEN xaddexp(xa[1], NSIGNIF, e2 - NSIGNIF + 1) ELSE xa[1]
  IN  IF c2 >= NSIGNIF - 2
      THEN IF StrtodCmp(b1, v) = 0 THEN [s1 |-> b1, e |-> ex, found |-> TRUE]
           ELSE IF StrtodCmp(b2, v) = 0 THEN [s1 |-> b2, e |-> e2, found |-> TRUE]
           ELSE [s1 |-> StrCpy(b2, 0, bak), e |-> ex, found |-> FALSE]
      ELSE [s1 |-> s1, e |-> ex, found |-> FALSE]

TenTries == 10

\* what a pass does with b1 once c, the sign of g - f, is known
XLoopMove(b1, ex, c) ==
  LET xa  == xadd(b1, NSIGNIF - 1, 1)
      xs  == xsub(b1, NSIGNIF - 1, 1)
  IN  IF c < 0 THEN [s1 |-> xa[1], e |-> IF xa[2] = 1 THEN ex - 1 ELSE ex, cmp |-> c]
      ELSE IF c > 0 THEN [s1 |-> xs[1], e |-> IF xs[2] = 1 THEN ex + 1 ELSE ex, cmp |-> c]
      ELSE [s1 |-> b1, e |-> ex, cmp |-> c]

\* the pass from the buffer b1 that xaddexp has completed
XLoopParse(b1, ex, v) == First(b1, XLoopMove(b1, ex, StrtodCmp(b1, v)))

\* one pass of "convert back so s1 gets exact answer"; cmp is the sign of g - f
XLoopBody(s1, ex, v) ==
  XLoopParse(xaddexp(s1, NSIGNIF, ex - NSIGNIF + 1), ex, v)

\* the last stage as it would be if it cut the digits off without rounding
XRoundTruncating(s1, ex, ch, pr) ==
  LET c2  == pr + 1
      c3  == IF ch = Chf THEN c2 + ex ELSE c2
      e2  == IF ch = Chf /\ c3 < 0 THEN 0 - pr - 1 ELSE ex
      c4  == IF ch = Chf /\ c3 < 0 THEN 0 ELSE c3
      c5  == IF c4 > NSIGNIF THEN NSIGNIF ELSE c4
  IN  [s1 |-> [s1 EXCEPT ![c5] = ChNUL], decpt |-> e2 + 1, es |-> c5]

\* "round & adjust 'f' digits", decpt and the terminator
XRound(s1, ex, ch, pr) ==
  LET c2  == pr + 1
      xa  == IF ch = Chf THEN xadd(s1, c2 + ex, 5) ELSE xadd(s1, c2, 5)
      e1  == IF xa[2] = 1 THEN ex + 1 ELSE ex
      c3  == IF ch = Chf THEN c2 + e1 ELSE c2
      e2  == IF ch = Chf /\ c3 < 0 THEN 0 - pr - 1 ELSE e1
      c4  == IF ch = Chf /\ c3 < 0 THEN 0 ELSE c3
      c5  == IF c4 > NSIGNIF THEN NSIGNIF ELSE c4
  IN  [s1 |-> [xa[1] EXCEPT ![c5] = ChNUL], decpt |-> e2 + 1, es |-> c5]

(***************************************************************************)
(* kendtoa.                                                                *)
(***************************************************************************)
KChr(md) ==
  IF md \in {2, 4, 6, 8} THEN Che
  ELSE IF md \in {3, 5, 7, 9} THEN Chf
  ELSE Chg

KPrec(md, nd) ==
  LET n1 == IF KChr(md) # Chf /\ nd # 0 THEN nd - 1 ELSE nd
      p  == IF n1 > NSIGNIF THEN NSIGNIF ELSE n1
  IN  IF n1 = 0 THEN NSIGNIF ELSE p

\* the strip loop as it would be with the test es > s2 in place of es > s2 + 1
RECURSIVE KStripToEmpty(_, _)
KStripToEmpty(buf, k) ==
  IF k > 0 /\ buf[k - 1] = Ch0 THEN KStripToEmpty(buf, k - 1) ELSE k

\* "strip trailing 0": where es stops
RECURSIVE KStrip(_, _)
KStrip(buf, k) ==
  IF k > 1 /\ buf[k - 1] = Ch0 THEN KStrip(buf, k - 1) ELSE k

\* the test for infinity as it would be with >= in place of >
XIsInfFromMax(fa) == FCmp(fa, maxFloat64) >= 0

\* "inf" is written for every f beyond the largest finite double
XIsInf(fa) == FCmp(fa, maxFloat64) > 0

\* sign: f < 0 (false of -0.0)
XSign(v) == IF v.s = 1 /\ ~FIsZero(v) THEN 1 ELSE 0

(***************************************************************************)
(* The state machine: calls of kendtoa on the one static buffer.           *)
(***************************************************************************)
VARIABLES
  pc,       \* "idle", "fast", "loop", "found", "strip", "done"
  s2,       \* kendtoa's static char s2[NSIGNIF + 10], xdodtoa's s1
  f,        \* argument f
  mode,     \* argument mode
  ndigits,  \* argument ndigits
  prec,     \* kendtoa's prec, as passed to xdodtoa
  e,        \* xdodtoa's e
  d,        \* xdodtoa's d, as the counter of the correction loop
  cmp,      \* sign of g - f at the last comparison (2: none yet)
  fast,     \* TRUE iff "goto found" was taken
  decpt,    \* *decpt
  rsign,    \* *rsign
  es,       \* the cursor es: an index into s2
  rve,      \* *rve
  calls,    \* calls made so far
  held      \* the strings the callers read through the pointers returned so far

vars == <<pc, s2, f, mode, ndigits, prec, e, d, cmp, fast, decpt, rsign, es, rve,
          calls, held>>

NotFinite == 9999

chr == XChr(KChr(mode))

Init ==
  /\ pc = "idle"
  /\ s2 = ZeroBuf
  /\ f = FZero
  /\ mode = 0
  /\ ndigits = 0
  /\ prec = 0
  /\ e = 0
  /\ d = 0
  /\ cmp = 2
  /\ fast = FALSE
  /\ decpt = 0
  /\ rsign = 0
  /\ es = 0
  /\ rve = 0
  /\ calls = 0
  /\ held = << >>

\* kendtoa entered with (v, md, nd); xdodtoa up to the converted digits
Call(v, md, nd) ==
  /\ pc \in {"idle", "done"}
  /\ IF FIsNaN(v)
     THEN /\ decpt' = NotFinite
          /\ rsign' = 0
          /\ s2' = StrCpy(s2, 0, <<Chn, Cha, Chn>>)
          /\ es' = 3
          /\ e' = e
          /\ pc' = "strip"
     ELSE IF XIsInf(FAbs(v))
     THEN /\ decpt' = NotFinite
          /\ rsign' = XSign(v)
          /\ s2' = StrCpy(s2, 0, <<Chi, Chn, Chf>>)
          /\ es' = 3
          /\ e' = e
          /\ pc' = "strip"
     ELSE \E sc \in {XScale(FAbs(v))} :
              /\ e' = sc[1]
              /\ s2' = XDigits(s2, sc[2])
              /\ rsign' = XSign(v)
              /\ UNCHANGED <<decpt, es>>
              /\ pc' = "fast"
  /\ f' = v
  /\ mode' = md
  /\ ndigits' = nd
  /\ prec' = KPrec(md, nd)
  /\ calls' = calls + 1
  /\ d' = 0
  /\ cmp' = 2
  /\ fast' = FALSE
  /\ UNCHANGED <<rve, held>>

\* the c2 test and the two candidates tried before the loop
FastPath ==
  /\ pc = "fast"
  /\ \E r \in {XFast(s2, e, FAbs(f), chr, XPrec(prec))} :
         /\ s2' = r.s1
         /\ e' = r.e
         /\ cmp' = (IF r.found THEN 0 ELSE cmp)
         /\ fast' = r.found
         /\ pc' = (IF r.found THEN "found" ELSE "loop")
  /\ UNCHANGED <<f, mode, ndigits, prec, d, decpt, rsign, es, rve, calls, held>>

\* one pass of for(d = 0; d < 10; d++), with the d++ and test that follow it
LoopIter ==
  /\ pc = "loop"
  /\ d < TenTries
  /\ \E r \in {XLoopBody(s2, e, FAbs(f))} :
         /\ s2' = r.s1
         /\ e' = r.e
         /\ cmp' = r.cmp
         /\ d' = (IF r.cmp = 0 THEN d ELSE d + 1)
         /\ pc' = (IF r.cmp = 0 \/ d + 1 >= TenTries THEN "found" ELSE "loop")
  /\ UNCHANGED <<f, mode, ndigits, prec, fast, decpt, rsign, es, rve, calls, held>>

\* from the label found to the return of xdodtoa
Round ==
  /\ pc = "found"
  /\ \E r \in {XRound(s2, e, chr, XPrec(prec))} :
         /\ s2' = r.s1
         /\ decpt' = r.decpt
         /\ e' = r.decpt - 1
         /\ es' = r.es
  /\ pc' = "strip"
  /\ UNCHANGED <<f, mode, ndigits, prec, d, cmp, fast, rsign, rve, calls, held>>

\* kendtoa after xdodtoa: strip, terminate, set *rve, return s2
Strip ==
  /\ pc = "strip"
  /\ \E k \in {KStrip(s2, es)} :
         /\ s2' = [s2 EXCEPT ![k] = ChNUL]
         /\ es' = k
         /\ rve' = k
         /\ held' = Append(held, CStr([s2 EXCEPT ![k] = ChNUL], 0))
  /\ pc' = "done"
  /\ UNCHANGED <<f, mode, ndigits, prec, e, d, cmp, fast, decpt, rsign, calls>>

(***************************************************************************)
(* The arguments explored.                                                 *)
(***************************************************************************)
F_1         == Fin(0, <<0, 0, 0, 128>>, 0 - 52)               \* 1.0
F_123_456   == Fin(0, <<15991, 13631, 29884, 246>>, 0 - 46)   \* 123.456
F_m0_0001   == Fin(1, <<17197, 22072, 23435, 209>>, 0 - 66)   \* -0.0001
F_0_1       == Fin(0, <<6554, 13107, 26214, 204>>, 0 - 56)    \* 0.1
F_0_3       == Fin(0, <<13107, 26214, 19660, 153>>, 0 - 54)   \* 0.3
F_9_96      == Fin(0, <<20972, 15728, 11796, 159>>, 0 - 49)   \* 9.96
F_962864    == Fin(0, <<4047, 11946, 2438, 235>>, 0 - 33)     \* 962864.79557084467
F_3_8396    == Fin(0, <<27353, 32525, 24069, 245>>, 0 - 51)   \* 3.839602466873981
F_121_91    == Fin(0, <<0, 0, 26888, 243>>, 0 - 46)           \* 121.9102783203125
F_55_686    == Fin(0, <<0, 0, 24396, 222>>, 0 - 47)           \* 55.686126708984375
F_Max       == maxFloat64                                     \* 1.7976931348623157e308
F_Min       == Fin(0, <<1>>, MinQ)                            \* 5e-324

Inputs ==
  { FNaN, FInf(0), FInf(1), FZero, F_1, F_123_456, F_m0_0001, F_0_1, F_0_3, F_9_96,
    F_962864, F_3_8396, F_121_91, F_55_686, F_Max, F_Min }

MaxMode == 3
MaxLowDigits == 4
Modes == 0..MaxMode
NDigits == (0..MaxLowDigits) \cup ((NSIGNIF - 2)..(NSIGNIF + 1))

\* one call of kendtoa, on any of the arguments
Next ==
  \/ \E v \in Inputs, md \in Modes, nd \in NDigits : calls < 1 /\ Call(v, md, nd)
  \/ FastPath
  \/ LoopIter
  \/ Round
  \/ Strip

Spec == Init /\ [][Next]_vars

MaxCalls == 3
ReuseInputs == {FNaN, F_1, F_9_96}
ReuseNDigits == {0, 2}

\* up to MaxCalls calls of kendtoa, one after the other
NextReuse ==
  \/ \E v \in ReuseInputs, nd \in ReuseNDigits : calls < MaxCalls /\ Call(v, 0, nd)
  \/ FastPath
  \/ LoopIter
  \/ Round
  \/ Strip

SpecReuse == Init /\ [][NextReuse]_vars

(***************************************************************************)
(* What the claims speak of.                                               *)
(***************************************************************************)
Finite(v) == v.k = "fin" /\ ~XIsInf(FAbs(v))

\* the digit string at s2, as a number
DigitsValue(buf) == ScanNum(buf, 0, << >>)[1]

\* limbs hi down to lo of floor(a / k), remainder r coming in, for
\* 0 < k <= 10000: <<the limbs, the remainder out>>
RECURSIVE BigDivSmallRange(_, _, _, _, _)
BigDivSmallRange(a, k, hi, lo, r) ==
  IF hi < lo THEN << << >>, r >>
  ELSE IF hi = lo
  THEN LET t == r * Base + a[hi]
       IN  << <<t \div k>>, t % k >>
  ELSE LET mid == (lo + hi) \div 2
           u   == BigDivSmallRange(a, k, hi, mid + 1, r)
           l   == BigDivSmallRange(a, k, mid, lo, u[2])
       IN  << l[1] \o u[1], l[2] >>

BigDivSmall(a, k) == BigNorm(BigDivSmallRange(a, k, Len(a), 1, 0)[1], Len(a))

\* floor(a / 10^j), j >= 0
RECURSIVE BigDivPow10(_, _)
BigDivPow10(a, j) ==
  IF j <= 4 THEN BigDivSmall(a, 10^j)
  ELSE LET u == BigDivPow10(a, j \div 2)
       IN  First(u, BigDivPow10(u, j - (j \div 2)))

\* floor(v / 10^j) for a finite v >= 0
FloorScaled(v, j) ==
  LET x == IF j <= 0 THEN BigMul(v.m, Pow10(0 - j)) ELSE v.m
      y == IF v.q >= 0 THEN BigShl(x, v.q) ELSE BigShr(x, 0 - v.q)
  IN  First(<<x, y>>, IF j <= 0 THEN y ELSE BigDivPow10(y, j))

\* the j for which floor(v / 10^j) has exactly k digits, v > 0
RECURSIVE ScaleFor(_, _, _)
ScaleFor(v, k, j) ==
  LET t == FloorScaled(v, j)
  IN  First(t, IF BigCmp(t, Pow10(k - 1)) < 0 THEN ScaleFor(v, k, j - 1)
               ELSE IF BigCmp(t, Pow10(k)) >= 0 THEN ScaleFor(v, k, j + 1)
               ELSE j)

\* TRUE iff some decimal of k significant digits parses to v: the rounding
\* interval of v is convex and contains v, so it holds a decimal of k digits
\* only if it holds v cut to k digits or the next decimal of k digits above
RoundTrips(v, k) ==
  LET j == ScaleFor(v, k, EstimateExp(Frexp(v)) - (k - 1))
      t == FloorScaled(v, j)
  IN  First(t, DecCmp(t, j, v) = 0 \/ DecCmp(BigAdd(t, <<1>>), j, v) = 0)

Shortest == pc = "done" /\ Finite(f) /\ ~FIsZero(f) /\ mode = 0 /\ ndigits = 0

(* C1: round-trip exactness.  For every finite double, shortest mode (mode 0, *)
(* ndigits 0) returns digits and decpt with 0.<digits> * 10^decpt parsing     *)
(* back to exactly |f|.                                                       *)
C1_RoundTrip ==
  (pc = "done" /\ Finite(f) /\ mode = 0 /\ ndigits = 0)
    => DecCmp(DigitsValue(s2), decpt - rve, FAbs(f)) = 0

(* C2: shortest output.  For every finite nonzero double, shortest mode       *)
(* returns a digit string such that no decimal of fewer digits parses to f.   *)
C2_ShortestOutput ==
  Shortest => \A k \in 1..(rve - 1) : ~RoundTrips(FAbs(f), k)

(* C3: special values.  NaN gives "nan", decpt 9999, sign 0; +Infinity gives  *)
(* "inf", 9999, sign 0; -Infinity gives "inf", 9999, sign 1, in every mode    *)
(* and for every digit count; the end cursor is just past the three letters;  *)
(* and decpt is 9999 for no finite input.                                     *)
C3_SpecialValues ==
  pc = "done" =>
    /\ FIsNaN(f) =>
         /\ CStr(s2, 0) = <<Chn, Cha, Chn>>
         /\ decpt = NotFinite /\ rsign = 0 /\ rve = 3
    /\ f = FInf(0) =>
         /\ CStr(s2, 0) = <<Chi, Chn, Chf>>
         /\ decpt = NotFinite /\ rsign = 0 /\ rve = 3
    /\ f = FInf(1) =>
         /\ CStr(s2, 0) = <<Chi, Chn, Chf>>
         /\ decpt = NotFinite /\ rsign = 1 /\ rve = 3
    /\ f.k = "fin" => decpt # NotFinite

C3_Witness ==
  /\ pc = "done" /\ f = FInf(1) /\ rsign = 1 /\ decpt = NotFinite
  /\ KChr(mode) = Chf /\ ndigits = NSIGNIF

(* C4: precision mapping.  In the exponential and general modes kendtoa      *)
(* passes precision ndigits - 1 (at most 17) for every ndigits > 0 and 17     *)
(* exactly when ndigits = 0, so that a request for n digits, 1 <= n <= 17,    *)
(* yields at most n digits.                                                   *)
C4_PrecisionMapping ==
  (pc # "idle" /\ KChr(mode) # Chf) =>
    /\ ndigits > 0 => prec = Min(ndigits - 1, NSIGNIF)
    /\ (prec = NSIGNIF /\ ndigits <= NSIGNIF) => ndigits = 0
    /\ (pc = "done" /\ Finite(f) /\ ndigits >= 1 /\ ndigits <= NSIGNIF) => rve <= ndigits

(* C6: buffer exclusivity.  The string a call returned is not altered by a    *)
(* later call: every pointer returned so far still reads what its caller got. *)
C6_BufferExclusive ==
  \A i \in 1..Len(held) : CStr(s2, 0) = held[i]

(* C8: bounded correction, fatal non-convergence.  The loop makes at most 10  *)
(* passes, and xdodtoa goes on to return a digit string only after a parse    *)
(* that gave exactly f.                                                       *)
C8_AbortOnNonConvergence ==
  /\ d <= TenTries
  /\ (pc \in {"found", "strip", "done"} /\ Finite(f)) => cmp = 0

\* the first n characters of buf, digits all, as a number
RECURSIVE PrefixValue(_, _, _, _)
PrefixValue(buf, n, i, acc) ==
  First(acc, IF i >= n THEN acc
             ELSE PrefixValue(buf, n, i + 1, BigMulAdd(acc, 10, buf[i] - Ch0)))

AllDigits(buf, n) == \A i \in 0..(n - 1) : IsDigit(buf[i])

(* C5: trailing-zero trimming.  kendtoa's result is the generator's string    *)
(* less trailing '0' characters only; the trimming stops at the first         *)
(* character that is not '0' or when one digit is left; *rve is the index of  *)
(* the terminator; trimming the result again changes nothing.                 *)
C5_Trimming ==
  [][(pc = "strip" /\ pc' = "done") =>
       LET old == CStr(s2, 0)
           new == CStr(s2', 0)
       IN  /\ Len(new) <= Len(old)
           /\ \A i \in 1..Len(new) : new[i] = old[i]
           /\ \A i \in (Len(new) + 1)..Len(old) : old[i] = Ch0
           /\ Len(new) > 1 => new[Len(new)] # Ch0
           /\ Len(old) >= 1 => Len(new) >= 1
           /\ rve' = Len(new)
           /\ s2'[rve'] = ChNUL
           /\ KStrip(s2', rve') = rve']_vars

C5_Witness ==
  /\ pc = "done" /\ Finite(f) /\ ~FIsZero(f)
  /\ rve = 1 /\ s2[rve] = ChNUL /\ s2[rve + 1] = Ch0 /\ s2[rve + 2] = Ch0

RECURSIVE XLoopAll(_, _, _)
XLoopAll(r, fa, n) ==
  First(r, IF r.cmp = 0 \/ n + 1 >= TenTries THEN r
           ELSE XLoopAll(XLoopBody(r.s1, r.e, fa), fa, n + 1))

\* ... what kendtoa makes of r, the outcome of xdodtoa's found ...
LoopOnlyStrip(r, v) ==
  First(r, [digits |-> CStr([r.s1 EXCEPT ![KStrip(r.s1, r.es)] = ChNUL], 0),
            decpt |-> r.decpt, rsign |-> XSign(v)])

\* ... the rounding of lp, the outcome of the loop ...
LoopOnlyRound(lp, v, md, nd) ==
  First(lp, LoopOnlyStrip(XRound(lp.s1, lp.e, XChr(KChr(md)), XPrec(KPrec(md, nd))), v))

\* ... the loop on the digits s1 ...
LoopOnlyLoop(s1, ex, v, md, nd) ==
  First(s1, LoopOnlyRound(XLoopAll(XLoopBody(s1, ex, FAbs(v)), FAbs(v), 0), v, md, nd))

\* ... the digits of sc, the outcome of the scaling
LoopOnlyDigits(sc, v, md, nd) ==
  First(sc, LoopOnlyLoop(XDigits(ZeroBuf, sc[2]), sc[1], v, md, nd))

LoopOnly(v, md, nd) ==
  IF FIsNaN(v) THEN [digits |-> <<Chn, Cha, Chn>>, decpt |-> NotFinite, rsign |-> 0]
  ELSE IF XIsInf(FAbs(v))
  THEN [digits |-> <<Chi, Chn, Chf>>, decpt |-> NotFinite, rsign |-> XSign(v)]
  ELSE LoopOnlyDigits(XScale(FAbs(v)), v, md, nd)

Returned == [digits |-> CStr(s2, 0), decpt |-> decpt, rsign |-> rsign]

(* C9 as claimed: the fast path is result-neutral.  For every double, format  *)
(* and precision the result equals the result of the loop alone.              *)
C9_FastPathNeutral ==
  pc = "done" => Returned = LoopOnly(f, mode, ndigits)

(* C9 as amended: the result equals the result of the loop alone whenever the *)
(* fast path accepts no candidate; when it accepts one, the result is that    *)
(* candidate, which parsed to exactly f and has at most NSIGNIF - 2 digits.   *)
C9_FastPathNeutralUnlessTaken ==
  pc = "done" =>
    /\ ~fast => Returned = LoopOnly(f, mode, ndigits)
    /\ fast => cmp = 0 /\ rve <= NSIGNIF - 2

C9_Witness ==
  /\ pc = "done" /\ ~fast /\ Finite(f) /\ prec = NSIGNIF /\ d >= 1 /\ cmp = 0

(* C10: precision rounding, exponential and general formats.  From the        *)
(* buffer D and exponent e at the label found, precision p <= 15 returns      *)
(* p + 1 digits, D rounded half-up at digit p + 1, with decpt = e + 1, or     *)
(* 1000... with decpt = e + 2 when the carry leaves the top digit; p >= 16    *)
(* returns the 17 digits of D as they are.  123.456 with 4 digits requested   *)
(* gives "1235", decpt 3.                                                     *)
C10_PrecisionRounding ==
  [][(pc = "found" /\ pc' = "strip" /\ chr # Chf) =>
       LET p   == XPrec(prec)
           v   == PrefixValue(s2, p + 2, 0, << >>)
           r   == BigDivSmall(BigAdd(v, <<5>>), 10)
           out == CStr(s2', 0)
       IN  /\ p <= NSIGNIF - 2 =>
                /\ Len(out) = p + 1 /\ es' = p + 1 /\ AllDigits(s2', p + 1)
                /\ IF BigCmp(r, Pow10(p + 1)) >= 0
                   THEN /\ PrefixValue(s2', p + 1, 0, << >>) = Pow10(p)
                        /\ decpt' = e + 2
                   ELSE /\ PrefixValue(s2', p + 1, 0, << >>) = r
                        /\ decpt' = e + 1
           /\ p >= NSIGNIF - 1 =>
                /\ Len(out) = NSIGNIF /\ es' = NSIGNIF
                /\ \A i \in 0..(NSIGNIF - 1) : s2'[i] = s2[i]
                /\ decpt' = e + 1
           /\ (f = F_123_456 /\ ndigits = 4) =>
                out = <<Ch1, Ch1 + 1, Ch1 + 2, Ch1 + 4>> /\ decpt' = 3]_vars

C10_Witness ==
  /\ pc = "strip" /\ f = F_9_96 /\ KChr(mode) = Che /\ ndigits = 2
  /\ CStr(s2, 0) = <<Ch1, Ch0>> /\ decpt = 2

====
